---- MODULE Spec2Model ----
(***************************************************************************)
(* The intake stage of the customer-support orchestrator: query-type,      *)
(* urgency and sentiment analysis (src/agents/intake_agent.py), the        *)
(* escalation rule and the configuration tables (src/config.py) and the    *)
(* session state (src/state.py).                                           *)
(*                                                                         *)
(* Each function is modelled by what its body does when it is called,      *)
(* Python's run-time errors included: a call returns a value or raises.    *)
(* Three defects stop the modules from loading at all (state.py:142 uses   *)
(* Any without importing it, config.py:27 hands os.getenv a list,          *)
(* intake_agent.py:222 has "return state" at class level); they are        *)
(* recorded here and the functions are modelled as they are defined, with  *)
(* line 222 read as the return of process_query and the escalation         *)
(* threshold at its default.                                               *)
(*                                                                         *)
(* Scores are exact decimals in thousandths (0.5 is 500).  Timestamps and  *)
(* the session id come from the wall clock and are left out.               *)
(***************************************************************************)
EXTENDS Integers, Sequences, FiniteSets, TLC

VARIABLES
    state,   \* the SupportState of the session (state.py:99-142)
    call     \* the last operation applied: its name, arguments and outcome

vars == <<state, call>>

(***************************************************************************)
(* Bounds of the model.                                                    *)
(***************************************************************************)
\* Most words in a query.
MaxWords == 2

\* Most executions of the intake node on one session.
MaxRuns == 2

(***************************************************************************)
(* Configuration tables (src/config.py).  Python dicts keep insertion      *)
(* order, so each table is a sequence of entries in the order written.     *)
(* Text is a sequence of one-character strings.                            *)
(***************************************************************************)

\* Config.URGENCY_KEYWORDS, config.py:50-68.
URGENCY_KEYWORDS ==
    <<
       [urgency_level |-> "critical", keywords |-> <<
            <<"d", "o", "w", "n">>,
            <<"o", "u", "t", "a", "g", "e">>,
            <<"e", "m", "e", "r", "g", "e", "n", "c", "y">>,
            <<"u", "r", "g", "e", "n", "t">>,
            <<"i", "m", "m", "e", "d", "i", "a", "t", "e", "l", "y">>,
            <<"p", "r", "o", "d", "u", "c", "t", "i", "o", "n">>,
            <<"c", "r", "i", "t", "i", "c", "a", "l">>,
            <<"b", "r", "o", "k", "e", "n">>,
            <<"n", "o", "t", " ", "w", "o", "r", "k", "i", "n", "g">>,
            <<"a", "n", "g", "r", "y">>,
            <<"f", "u", "r", "i", "o", "u", "s">>,
            <<"u", "n", "a", "c", "c", "e", "p", "t", "a", "b", "l", "e">>>>],
       [urgency_level |-> "high", keywords |-> <<
            <<"i", "m", "p", "o", "r", "t", "a", "n", "t">>,
            <<"a", "s", "a", "p">>,
            <<"s", "o", "o", "n">>,
            <<"q", "u", "i", "c", "k">>,
            <<"f", "a", "s", "t">>,
            <<"p", "r", "o", "b", "l", "e", "m">>,
            <<"i", "s", "s", "u", "e">>,
            <<"e", "r", "r", "o", "r">>,
            <<"b", "u", "g">>,
            <<"h", "e", "l", "p">>>>],
       [urgency_level |-> "medium", keywords |-> <<
            <<"q", "u", "e", "s", "t", "i", "o", "n">>,
            <<"h", "o", "w", " ", "t", "o">>,
            <<"w", "h", "e", "n">>,
            <<"w", "h", "e", "r", "e">>,
            <<"w", "h", "y">>,
            <<"i", "n", "f", "o", "r", "m", "a", "t", "i", "o", "n">>,
            <<"d", "e", "t", "a", "i", "l", "s">>,
            <<"c", "l", "a", "r", "i", "f", "i", "c", "a", "t", "i", "o", "n">>>>],
       [urgency_level |-> "low", keywords |-> <<
            <<"c", "u", "r", "i", "o", "u", "s">>,
            <<"w", "o", "n", "d", "e", "r", "i", "n", "g">>,
            <<"s", "o", "m", "e", "t", "i", "m", "e">>,
            <<"e", "v", "e", "n", "t", "u", "a", "l", "l", "y">>,
            <<"g", "e", "n", "e", "r", "a", "l">>,
            <<"b", "a", "s", "i", "c">>,
            <<"s", "i", "m", "p", "l", "e">>>>]
    >>

\* Config.ROUTING_KEYWORDS, config.py:81-102 (no entry for "complaint").
ROUTING_KEYWORDS ==
    <<
       [query_type |-> "technical", keywords |-> <<
            <<"a", "p", "i">>,
            <<"i", "n", "t", "e", "g", "r", "a", "t", "i", "o", "n">>,
            <<"c", "o", "d", "e">>,
            <<"e", "r", "r", "o", "r">>,
            <<"b", "u", "g">>,
            <<"n", "o", "t", " ", "w", "o", "r", "k", "i", "n", "g">>,
            <<"b", "r", "o", "k", "e", "n">>,
            <<"t", "e", "c", "h", "n", "i", "c", "a", "l">>,
            <<"d", "e", "v", "e", "l", "o", "p", "m", "e", "n", "t">>,
            <<"w", "e", "b", "h", "o", "o", "k">>,
            <<"a", "u", "t", "h", "e", "n", "t", "i", "c", "a", "t", "i", "o", "n">>,
            <<"d", "a", "t", "a", "b", "a", "s", "e">>,
            <<"s", "e", "r", "v", "e", "r">>>>],
       [query_type |-> "billing", keywords |-> <<
            <<"p", "a", "y", "m", "e", "n", "t">>,
            <<"c", "h", "a", "r", "g", "e">>,
            <<"b", "i", "l", "l">>,
            <<"i", "n", "v", "o", "i", "c", "e">>,
            <<"r", "e", "f", "u", "n", "d">>,
            <<"s", "u", "b", "s", "c", "r", "i", "p", "t", "i", "o", "n">>,
            <<"p", "r", "i", "c", "i", "n", "g">>,
            <<"c", "o", "s", "t">>,
            <<"m", "o", "n", "e", "y">>,
            <<"c", "r", "e", "d", "i", "t", " ", "c", "a", "r", "d">>,
            <<"b", "a", "n", "k">>,
            <<"t", "r", "a", "n", "s", "a", "c", "t", "i", "o", "n">>>>],
       [query_type |-> "sales", keywords |-> <<
            <<"u", "p", "g", "r", "a", "d", "e">>,
            <<"p", "l", "a", "n">>,
            <<"f", "e", "a", "t", "u", "r", "e", "s">>,
            <<"d", "e", "m", "o">>,
            <<"t", "r", "i", "a", "l">>,
            <<"p", "u", "r", "c", "h", "a", "s", "e">>,
            <<"b", "u", "y">>,
            <<"p", "r", "i", "c", "i", "n", "g">>,
            <<"q", "u", "o", "t", "e">>,
            <<"e", "n", "t", "e", "r", "p", "r", "i", "s", "e">>,
            <<"c", "u", "s", "t", "o", "m">>,
            <<"c", "o", "n", "t", "r", "a", "c", "t">>>>],
       [query_type |-> "general", keywords |-> <<
            <<"a", "c", "c", "o", "u", "n", "t">>,
            <<"p", "r", "o", "f", "i", "l", "e">>,
            <<"s", "e", "t", "t", "i", "n", "g", "s">>,
            <<"p", "a", "s", "s", "w", "o", "r", "d">>,
            <<"l", "o", "g", "i", "n">>,
            <<"a", "c", "c", "e", "s", "s">>,
            <<"h", "o", "w", " ", "t", "o">>,
            <<"t", "u", "t", "o", "r", "i", "a", "l">>,
            <<"d", "o", "c", "u", "m", "e", "n", "t", "a", "t", "i", "o", "n">>,
            <<"g", "u", "i", "d", "e">>>>]
    >>

\* Words the bounded queries are built from: keywords of every urgency level and
\* routing category, capitalised spellings, a keyword inside a longer word
\* ("Billing"), the two halves of the keyword "how to", and a word matching nothing.
Vocabulary ==
    { <<"D", "o", "w", "n">>,
      <<"c", "u", "r", "i", "o", "u", "s">>,
      <<"b", "u", "g">>,
      <<"h", "o", "w">>,
      <<"t", "o">>,
      <<"B", "i", "l", "l", "i", "n", "g">>,
      <<"p", "r", "i", "c", "i", "n", "g">>,
      <<"h", "i">> }

\* Answers of the chat model: the five categories (one padded and capitalised),
\* the word "unknown", a word that is no category, and an empty answer.
LLMContents ==
    { <<"t", "e", "c", "h", "n", "i", "c", "a", "l">>,
      <<" ", "B", "i", "l", "l", "i", "n", "g", "\n">>,
      <<"s", "a", "l", "e", "s">>,
      <<"g", "e", "n", "e", "r", "a", "l">>,
      <<"c", "o", "m", "p", "l", "a", "i", "n", "t">>,
      <<"u", "n", "k", "n", "o", "w", "n">>,
      <<"r", "e", "f", "u", "n", "d">>,
      <<>> }

\* Tier strings offered to the tier lookup: the four tiers, an upper-case
\* spelling and a tier that does not exist.
TierInputs ==
    { <<"b", "a", "s", "i", "c">>,
      <<"p", "r", "e", "m", "i", "u", "m">>,
      <<"e", "n", "t", "e", "r", "p", "r", "i", "s", "e">>,
      <<"v", "i", "p">>,
      <<"V", "I", "P">>,
      <<"g", "o", "l", "d">> }

\* str.lower() on one character.
UpperToLower ==
    [A |-> "a", B |-> "b", C |-> "c", D |-> "d", E |-> "e", F |-> "f", G |-> "g", H |-> "h", I |-> "i", J |-> "j", K |-> "k", L |-> "l", M |-> "m", N |-> "n", O |-> "o", P |-> "p", Q |-> "q", R |-> "r", S |-> "s", T |-> "t", U |-> "u", V |-> "v", W |-> "w", X |-> "x", Y |-> "y", Z |-> "z"]

T_technical == <<"t", "e", "c", "h", "n", "i", "c", "a", "l">>
T_billing == <<"b", "i", "l", "l", "i", "n", "g">>
T_sales == <<"s", "a", "l", "e", "s">>
T_general == <<"g", "e", "n", "e", "r", "a", "l">>
T_complaint == <<"c", "o", "m", "p", "l", "a", "i", "n", "t">>
T_basic == <<"b", "a", "s", "i", "c">>
T_premium == <<"p", "r", "e", "m", "i", "u", "m">>
T_enterprise == <<"e", "n", "t", "e", "r", "p", "r", "i", "s", "e">>
T_vip == <<"v", "i", "p">>

(***************************************************************************)
(* Python values.                                                          *)
(***************************************************************************)
None == "None"

\* The outcome of a call: a returned value or a raised exception.
Return(v) == [kind |-> "return", value |-> v, exc |-> "none"]

Raise(e) == [kind |-> "raise", value |-> "none", exc |-> e]

\* str.lower()
str_lower(s) == [i \in 1..Len(s) |-> IF s[i] \in DOMAIN UpperToLower THEN UpperToLower[s[i]] ELSE s[i]]

Whitespace == {" ", "\n", "\t"}

\* str.strip(): drop leading and trailing whitespace.
RECURSIVE str_lstrip(_)
str_lstrip(s) == IF s # <<>> /\ Head(s) \in Whitespace THEN str_lstrip(Tail(s)) ELSE s

RECURSIVE str_rstrip(_)
str_rstrip(s) ==
    IF s # <<>> /\ s[Len(s)] \in Whitespace THEN str_rstrip(SubSeq(s, 1, Len(s) - 1)) ELSE s

str_strip(s) == str_rstrip(str_lstrip(s))

\* keyword in text: substring test.
str_contains(text, keyword) ==
    \E i \in 0..(Len(text) - Len(keyword)) : SubSeq(text, i + 1, i + Len(keyword)) = keyword

\* dict[key] = value on a dict kept as a sequence of <<key, value>> in insertion order.
dict_set(d, key, value) ==
    IF \E i \in 1..Len(d) : d[i][1] = key
    THEN [i \in 1..Len(d) |-> IF d[i][1] = key THEN <<key, value>> ELSE d[i]]
    ELSE Append(d, <<key, value>>)

\* The bounded inputs: queries of at most MaxWords words joined by single spaces.
RECURSIVE Join(_)
Join(ws) ==
    IF ws = <<>> THEN <<>>
    ELSE IF Len(ws) = 1 THEN ws[1]
    ELSE ws[1] \o <<" ">> \o Join(Tail(ws))

Queries == { Join(ws) : ws \in UNION { [1..n -> Vocabulary] : n \in 0..MaxWords } }

(***************************************************************************)
(* Enumerations and session state (src/state.py).                          *)
(***************************************************************************)
\* class QueryType(): a plain class, not an Enum (state.py:11).
QueryType_is_Enum == FALSE

QueryType ==
    [TECHNICAL |-> "technical", BILLING |-> "billing", GENERAL |-> "general",
     SALES |-> "sales", COMPLAINT |-> "complaint", UNKNOWN |-> "unknown"]

UrgencyLevel == [LOW |-> "low", MEDIUM |-> "medium", HIGH |-> "high", CRITICAL |-> "critical"]

SentimentLevel ==
    [VERY_HIGH |-> "very_high", POSITIVE |-> "positive", NEUTRAL |-> "neutral",
     NEGATIVE |-> "negative", VERY_NEGATIVE |-> "very_negative", ANGRY |-> "angry"]

\* Enum.MEMBER: the member's value, or AttributeError when the enum has no such member.
enum_attr(enum, member) ==
    IF member \in DOMAIN enum THEN Return(enum[member]) ELSE Raise("AttributeError")

\* The customer_info arguments offered to create_initial_state: <<>> is None
\* (the argument left out), <<r>> is the record r of a VIP customer.
CustomerInfoInputs ==
    { <<>>,
      << [customer_id |-> "c1", name |-> "A Customer", email |-> "a@example.com", tier |-> "vip",
       account_status |-> "active", previous_tickets |-> 3, satisfaction_score |-> None,
       language |-> "en"] >> }

create_initial_state(customer_id, query, customer_info) ==
    [ customer_info |->
          IF customer_info = <<>>
          THEN [customer_id |-> customer_id, name |-> "Unknown Customer",
                email |-> <<customer_id, "@example.com">>, tier |-> "basic",
                account_status |-> "active", privious_tickets |-> 0,
                satisfaction_score |-> None]
          ELSE customer_info[1],
      original_query |-> query,
      processed_query |-> <<>>,
      query_type |-> QueryType.UNKNOWN,
      urgency_level |-> UrgencyLevel.MEDIUM,
      sentiment_level |-> SentimentLevel.NEUTRAL,
      conversation_history |->
          << [sender |-> "customer", content |-> query, agent_type |-> None,
              confidence_score |-> None] >>,
      current_agent |-> "intake",
      assigned_agents |-> <<>>,
      completed_agents |-> <<>>,
      agent_responses |-> <<>>,
      final_response |-> None,
      risk_assessment |->
          [financial_risk |-> FALSE, legal_risk |-> FALSE, reputation_risk |-> FALSE,
           churn_risk |-> FALSE, complexity_risk |-> FALSE, overall_risk_score |-> 0],
      escalation_needed |-> FALSE,
      human_handoff_required |-> FALSE,
      escalation_reason |-> None,
      resolution_status |-> "pending",
      resolution_time |-> None,
      customer_satisfaction |-> None,
      workflow_step |-> "intake",
      error_messages |-> <<>>,
      debug_info |-> <<>> ]

\* get_default_config(): the fields the escalation rule and the claims read.
get_default_config ==
    [sentiment_escalation_threshold |-> -700, urgency_escalation_level |-> UrgencyLevel.HIGH,
     max_auto_refund |-> 100, max_agent_attempts |-> 3]

(***************************************************************************)
(* Configuration (src/config.py).                                          *)
(***************************************************************************)
\* Config.SUPPORT_CONFIG: the defaults (the override of line 27 cannot run).
SUPPORT_CONFIG == get_default_config

SENTIMENT_THRESHOLDS ==
    [very_positive |-> 500, positive |-> 100, neutral |-> -100, negative |-> -500,
     very_negative |-> -700, angry |-> -800]

\* Config.TIER_SETTINGS in insertion order; response_time_multiplier in tenths.
TIER_SETTINGS ==
    << [tier |-> T_basic, settings |->
            [max_auto_refund |-> 50, response_time_multiplier |-> 10,
             auto_escalate |-> FALSE, priority_score |-> 1]],
       [tier |-> T_premium, settings |->
            [max_auto_refund |-> 200, response_time_multiplier |-> 8,
             auto_escalate |-> FALSE, priority_score |-> 2]],
       [tier |-> T_enterprise, settings |->
            [max_auto_refund |-> 1000, response_time_multiplier |-> 5,
             auto_escalate |-> TRUE, priority_score |-> 4]],
       [tier |-> T_vip, settings |->
            [max_auto_refund |-> 5000, response_time_multiplier |-> 3,
             auto_escalate |-> TRUE, priority_score |-> 5]] >>

\* Mutant: the tier looked up as given, without lower().
get_tier_settings_case_sensitive(tier) ==
    LET hit == { i \in 1..Len(TIER_SETTINGS) : TIER_SETTINGS[i].tier = tier }
        basic == CHOOSE i \in 1..Len(TIER_SETTINGS) : TIER_SETTINGS[i].tier = T_basic
    IN  IF hit # {} THEN TIER_SETTINGS[CHOOSE i \in hit : TRUE].settings
        ELSE TIER_SETTINGS[basic].settings

\* TIER_SETTINGS.get(tier.lower(), TIER_SETTINGS["basic"])
get_tier_settings(tier) ==
    LET key == str_lower(tier)
        hit == { i \in 1..Len(TIER_SETTINGS) : TIER_SETTINGS[i].tier = key }
        basic == CHOOSE i \in 1..Len(TIER_SETTINGS) : TIER_SETTINGS[i].tier = T_basic
    IN  IF hit # {} THEN TIER_SETTINGS[CHOOSE i \in hit : TRUE].settings
        ELSE TIER_SETTINGS[basic].settings

\* Mutant: the tier rule left out.
should_auto_escalate_no_tier_rule(tier, urgency, sentiment_score) ==
    IF sentiment_score <= SUPPORT_CONFIG.sentiment_escalation_threshold THEN TRUE
    ELSE IF urgency = "critical" THEN TRUE
    ELSE FALSE

\* Mutant: the sentiment threshold compared strictly.
should_auto_escalate_strict(tier, urgency, sentiment_score) ==
    LET tier_settings == get_tier_settings(tier) IN
    IF tier_settings.auto_escalate /\ urgency \in {"high", "critical"} THEN TRUE
    ELSE IF sentiment_score < SUPPORT_CONFIG.sentiment_escalation_threshold THEN TRUE
    ELSE IF urgency = "critical" THEN TRUE
    ELSE FALSE

\* Mutant: the critical-urgency rule left out.
should_auto_escalate_no_critical(tier, urgency, sentiment_score) ==
    LET tier_settings == get_tier_settings(tier) IN
    IF tier_settings.auto_escalate /\ urgency \in {"high", "critical"} THEN TRUE
    ELSE IF sentiment_score <= SUPPORT_CONFIG.sentiment_escalation_threshold THEN TRUE
    ELSE FALSE

\* Config.should_auto_escalate: three rules in order, the first that holds returns True.
should_auto_escalate(tier, urgency, sentiment_score) ==
    LET tier_settings == get_tier_settings(tier) IN
    IF tier_settings.auto_escalate /\ urgency \in {"high", "critical"} THEN TRUE
    ELSE IF sentiment_score <= SUPPORT_CONFIG.sentiment_escalation_threshold THEN TRUE
    ELSE IF urgency = "critical" THEN TRUE
    ELSE FALSE

(***************************************************************************)
(* IntakeAgent (src/agents/intake_agent.py).                               *)
(***************************************************************************)
\* Instance attributes set by __init__ (lines 17-24).
IntakeAgent_attributes == {"llm", "sentiemnt_analyzer"}

\* Methods the class defines.
IntakeAgent_methods ==
    {"analyzer_query_type", "analyzer_urgency", "analyze_sentiment", "_llm_classify_query",
     "process_query"}

\* Names bound inside the scoring loop of analyzer_query_type (lines 37-43).
analyzer_query_type_names ==
    {"self", "query", "query_lower", "type_scores", "query_type", "keywords", "scope"}

\* Outcomes of self.llm.invoke(prompt): an answer, or an exception (timeout, provider error).
LLMOutcomes == { Return(c) : c \in LLMContents } \cup { Raise("Exception") }

\* Polarity scores a sentiment provider may return, in thousandths; multiples of 50,
\* so that the mean of two of them is exact.
ScoreGrid == { -1000, -800, -750, -700, -600, -100, 0, 100, 500, 1000 }

\* What the collaborators answer during one run of the intake node: the chat model
\* names a category, answers nothing or fails; each provider returns a low or a high score.
Environments ==
    [llm : { o \in LLMOutcomes : o.kind = "raise" \/ o.value \in {T_technical, <<>>} },
     compound : {-800, 600}, textblob : {-800, 600}]

\* Line 42: how many keywords of a list occur in the lower-cased query.
keyword_count(keywords, query_lower) ==
    Cardinality({ i \in 1..Len(keywords) : str_contains(query_lower, keywords[i]) })

\* max(type_scores, key=type_scores.get): the first key, in insertion order, of maximal score.
max_key(type_scores) ==
    LET best == CHOOSE i \in 1..Len(type_scores) :
                    /\ \A j \in 1..Len(type_scores) : type_scores[j][2] <= type_scores[i][2]
                    /\ \A j \in 1..(i - 1) : type_scores[j][2] < type_scores[i][2]
    IN  type_scores[best][1]

\* _llm_classify_query (lines 111-154).
llm_classify_query(query, llm) ==
    IF llm.kind = "raise" THEN Return(QueryType.UNKNOWN)
    ELSE LET classification == str_lower(str_strip(llm.value)) IN
         IF classification = T_technical THEN Return(QueryType.TECHNICAL)
         ELSE IF classification = T_billing THEN Return(QueryType.BILLING)
         ELSE IF classification = T_sales THEN Return(QueryType.SALES)
         ELSE IF classification = T_general THEN Return(QueryType.GENERAL)
         ELSE IF classification = T_complaint THEN Return(QueryType.COMPLAINT)
         ELSE Return(QueryType.UNKNOWN)

\* analyzer_query_type (lines 26-50).
analyzer_query_type(query, llm) ==
    LET query_lower == str_lower(query)
        type_scores == [i \in 1..Len(ROUTING_KEYWORDS) |->
                           <<ROUTING_KEYWORDS[i].query_type,
                             keyword_count(ROUTING_KEYWORDS[i].keywords, query_lower)>>]
    IN  IF Len(ROUTING_KEYWORDS) > 0 /\ "score" \notin analyzer_query_type_names
        THEN Raise("NameError")
        ELSE IF Len(type_scores) = 0 THEN Raise("ValueError")
        ELSE IF \E i \in 1..Len(type_scores) : type_scores[i][2] > 0
        THEN IF QueryType_is_Enum THEN Return(max_key(type_scores)) ELSE Raise("TypeError")
        ELSE llm_classify_query(query, llm)

\* analyzer_urgency (lines 52-71): the first level, in the table's order, with a keyword
\* in the lower-cased query.
RECURSIVE urgency_scan(_, _)
urgency_scan(query_lower, i) ==
    IF i > Len(URGENCY_KEYWORDS) THEN UrgencyLevel.MEDIUM
    ELSE IF \E k \in 1..Len(URGENCY_KEYWORDS[i].keywords) :
                str_contains(query_lower, URGENCY_KEYWORDS[i].keywords[k])
         THEN URGENCY_KEYWORDS[i].urgency_level
         ELSE urgency_scan(query_lower, i + 1)

\* Mutant: the table scanned from its last entry to its first.
RECURSIVE urgency_scan_reversed(_, _)
urgency_scan_reversed(query_lower, i) ==
    IF i < 1 THEN UrgencyLevel.MEDIUM
    ELSE IF \E k \in 1..Len(URGENCY_KEYWORDS[i].keywords) :
                str_contains(query_lower, URGENCY_KEYWORDS[i].keywords[k])
         THEN URGENCY_KEYWORDS[i].urgency_level
         ELSE urgency_scan_reversed(query_lower, i - 1)

analyzer_urgency_reversed(query) ==
    Return(urgency_scan_reversed(str_lower(query), Len(URGENCY_KEYWORDS)))

analyzer_urgency(query) == Return(urgency_scan(str_lower(query), 1))

\* Lines 95-107: the SentimentLevel member the thresholds select.
sentiment_member(avg_score) ==
    IF avg_score >= SENTIMENT_THRESHOLDS.very_positive THEN "VERY_POSITIVE"
    ELSE IF avg_score >= SENTIMENT_THRESHOLDS.positive THEN "POSITIVE"
    ELSE IF avg_score >= SENTIMENT_THRESHOLDS.neutral THEN "NEUTRAL"
    ELSE IF avg_score >= SENTIMENT_THRESHOLDS.negative THEN "NEGATIVE"
    ELSE IF avg_score >= SENTIMENT_THRESHOLDS.very_negative THEN "VERY_NEGATIVE"
    ELSE "ANGRY"

\* analyze_sentiment (lines 73-109); compound and textblob are the providers' scores.
analyze_sentiment(query, compound, textblob) ==
    IF "sentiment_analyzer" \notin IntakeAgent_attributes THEN Raise("AttributeError")
    ELSE LET avg_score == (compound + textblob) \div 2
             sentiment_level == enum_attr(SentimentLevel, sentiment_member(avg_score))
         IN  IF sentiment_level.kind = "raise" THEN sentiment_level
             ELSE Return(<<sentiment_level.value, avg_score>>)

\* self.<name>(query): the method of that name, or AttributeError when there is none.
self_call(name, query, env) ==
    IF name \notin IntakeAgent_methods THEN Raise("AttributeError")
    ELSE IF name = "analyzer_query_type" THEN analyzer_query_type(query, env.llm)
    ELSE IF name = "analyzer_urgency" THEN analyzer_urgency(query)
    ELSE IF name = "analyze_sentiment" THEN analyze_sentiment(query, env.compound, env.textblob)
    ELSE llm_classify_query(query, env.llm)

\* Lines 173-175: the three analyses, in order; the first exception ends them.
intake_analysis(query, env) ==
    LET query_type == self_call("analyze_query_type", query, env) IN
    IF query_type.kind = "raise" THEN query_type
    ELSE LET urgency_level == self_call("analyze_urgency", query, env) IN
         IF urgency_level.kind = "raise" THEN urgency_level
         ELSE LET sentiment == self_call("analyze_sentiment", query, env) IN
              IF sentiment.kind = "raise" THEN sentiment
              ELSE Return([query_type |-> query_type.value,
                           urgency_level |-> urgency_level.value,
                           sentiment_level |-> sentiment.value[1],
                           sentiment_score |-> sentiment.value[2]])

\* Lines 178-186: the state after a successful analysis, before the debug record.
with_analysis(s, a) ==
    [s EXCEPT !.query_type = a.query_type,
              !.urgency_level = a.urgency_level,
              !.sentiment_level = a.sentiment_level,
              !.processed_query = s.original_query,
              !.current_agent = "router",
              !.workflow_step = "routing",
              !.debug_info = dict_set(s.debug_info, "sentiment_score", a.sentiment_score)]

\* Lines 187-205: the debug record, the completed agent and the analysis message.
with_completion(s, a) ==
    [s EXCEPT !.debug_info = dict_set(s.debug_info, "intake_analysis", a),
              !.completed_agents = Append(s.completed_agents, "intake"),
              !.conversation_history =
                  Append(s.conversation_history,
                         [sender |-> "intake_agent",
                          content |-> <<"Query analyzed", a.query_type, a.urgency_level,
                                        a.sentiment_level>>,
                          agent_type |-> "intake", confidence_score |-> 8])]

\* Lines 212-220: the handler records the error and sets the defaults.
with_failure(s, exc) ==
    [s EXCEPT !.error_messages = Append(s.error_messages, <<"Intake analysis failed", exc>>),
              !.query_type = QueryType.UNKNOWN,
              !.urgency_level = UrgencyLevel.MEDIUM,
              !.sentiment_level = SentimentLevel.NEUTRAL]

\* The try block of process_query (lines 171-210): the exception it raises, or the
\* analysis it completes with.  query_type.value (line 188) needs an Enum member: on a
\* plain string it raises, after lines 178-186 have already changed the state.
try_block(s, env) ==
    LET analysis == intake_analysis(s.original_query, env) IN
    IF analysis.kind = "raise" THEN analysis
    ELSE IF ~QueryType_is_Enum THEN Raise("AttributeError")
    ELSE analysis

\* Mutant: the handler records the attempt in completed_agents and, when the agent is
\* already recorded, takes it out again.
process_query_toggle(s, env) ==
    LET failed == with_failure(s, try_block(s, env).exc) IN
    [failed EXCEPT !.completed_agents =
                       IF \E i \in 1..Len(s.completed_agents) : s.completed_agents[i] = "intake"
                       THEN SelectSeq(s.completed_agents, LAMBDA a : a # "intake")
                       ELSE Append(s.completed_agents, "intake")]

\* Mutant: the agent is recorded as completed whether the analysis succeeds or fails.
process_query_always_append(s, env) ==
    LET failed == with_failure(s, try_block(s, env).exc) IN
    [failed EXCEPT !.completed_agents = Append(s.completed_agents, "intake")]

\* process_query (lines 156-222).
process_query(s, env) ==
    LET analysis == intake_analysis(s.original_query, env)
        outcome == try_block(s, env)
    IN  IF analysis.kind = "raise" THEN with_failure(s, outcome.exc)
        ELSE IF outcome.kind = "raise"
             THEN with_failure(with_analysis(s, analysis.value), outcome.exc)
             ELSE with_completion(with_analysis(s, analysis.value), analysis.value)

(***************************************************************************)
(* The session: a state is created for one query and the intake node runs  *)
(* on it; the classifiers are also applied to the session's query.         *)
(***************************************************************************)
NoCall == [op |-> "none", args |-> <<>>, result |-> Return(None)]

Init ==
    /\ \E query \in Queries, customer_info \in CustomerInfoInputs :
           state = create_initial_state("c1", query, customer_info)
    /\ call = NoCall

\* intake_node(state) (lines 228-238): one run of process_query on the session.
intake_node ==
    /\ Len(state.error_messages) < MaxRuns
    /\ Len(state.completed_agents) < MaxRuns
    /\ \E env \in Environments :
           /\ state' = process_query(state, env)
           /\ call' = [op |-> "process_query", args |-> <<>>,
                       result |-> try_block(state, env)]

Call_analyzer_urgency ==
    /\ call' = [op |-> "analyzer_urgency", args |-> <<state.original_query>>,
                result |-> analyzer_urgency(state.original_query)]
    /\ UNCHANGED state

Call_analyzer_query_type ==
    /\ \E llm \in LLMOutcomes :
           call' = [op |-> "analyzer_query_type", args |-> <<state.original_query, llm>>,
                    result |-> analyzer_query_type(state.original_query, llm)]
    /\ UNCHANGED state

Call_llm_classify_query ==
    /\ \E llm \in LLMOutcomes :
           call' = [op |-> "_llm_classify_query", args |-> <<state.original_query, llm>>,
                    result |-> llm_classify_query(state.original_query, llm)]
    /\ UNCHANGED state

Next ==
    \/ intake_node
    \/ Call_analyzer_urgency
    \/ Call_analyzer_query_type
    \/ Call_llm_classify_query

Spec == Init /\ [][Next]_vars

(***************************************************************************)
(* The decision functions applied to inputs of their own: sentiment        *)
(* analysis on two provider scores, the escalation rule on a tier, an      *)
(* urgency and a sentiment score.                                          *)
(***************************************************************************)
\* overall_risk_score values of a RiskAssessment: the fraction of five flags.
RiskScores == { 0, 600, 800 }

UrgencyInputs == { UrgencyLevel.LOW, UrgencyLevel.MEDIUM, UrgencyLevel.HIGH, UrgencyLevel.CRITICAL }

InitPolicy ==
    /\ state = create_initial_state("c1", <<>>, <<>>)
    /\ call = NoCall

Call_analyze_sentiment ==
    /\ \E compound \in ScoreGrid, textblob \in ScoreGrid :
           call' = [op |-> "analyze_sentiment",
                    args |-> [compound |-> compound, textblob |-> textblob],
                    result |-> analyze_sentiment(state.original_query, compound, textblob)]
    /\ UNCHANGED state

\* The caller holds a risk assessment as well; should_auto_escalate has no parameter for it.
Call_should_auto_escalate ==
    /\ \E tier \in TierInputs, urgency \in UrgencyInputs, sentiment_score \in ScoreGrid,
          overall_risk_score \in RiskScores :
           call' = [op |-> "should_auto_escalate",
                    args |-> [tier |-> tier, urgency |-> urgency,
                              sentiment_score |-> sentiment_score,
                              overall_risk_score |-> overall_risk_score],
                    result |-> Return(should_auto_escalate(tier, urgency, sentiment_score))]
    /\ UNCHANGED state

Call_get_tier_settings ==
    /\ \E tier \in TierInputs :
           call' = [op |-> "get_tier_settings", args |-> [tier |-> tier],
                    result |-> Return(get_tier_settings(tier))]
    /\ UNCHANGED state

NextPolicy ==
    \/ Call_analyze_sentiment
    \/ Call_should_auto_escalate
    \/ Call_get_tier_settings

SpecPolicy == InitPolicy /\ [][NextPolicy]_vars

(***************************************************************************)
(* The claims.                                                             *)
(***************************************************************************)
\* Whether a keyword of the given urgency level occurs in the lower-cased query.
urgency_hit(level, query_lower) ==
    \E i \in 1..Len(URGENCY_KEYWORDS) :
        /\ URGENCY_KEYWORDS[i].urgency_level = level
        /\ \E k \in 1..Len(URGENCY_KEYWORDS[i].keywords) :
               str_contains(query_lower, URGENCY_KEYWORDS[i].keywords[k])

\* C1: urgency classification returns the first level, in the order Critical, High,
\* Medium, Low, that has a keyword in the lower-cased query, and Medium when no level
\* matches; a Critical keyword wins over a Low keyword.
C1_UrgencyPriority ==
    call.op = "analyzer_urgency" =>
        LET q == str_lower(call.args[1]) IN
        call.result =
            Return(IF urgency_hit("critical", q) THEN "critical"
                   ELSE IF urgency_hit("high", q) THEN "high"
                   ELSE IF urgency_hit("medium", q) THEN "medium"
                   ELSE IF urgency_hit("low", q) THEN "low"
                   ELSE "medium")

\* C1 witness: a query with a Critical and a Low keyword has been classified Critical.
C1_Witness ==
    /\ call.op = "analyzer_urgency"
    /\ urgency_hit("critical", str_lower(call.args[1]))
    /\ urgency_hit("low", str_lower(call.args[1]))
    /\ call.result = Return("critical")

\* The routing categories in the priority order of the specification.
CategoryPriority == <<"technical", "billing", "sales", "general", "complaint">>

\* The keyword-match count of a category: zero for a category without a keyword list.
category_count(category, query_lower) ==
    IF \E i \in 1..Len(ROUTING_KEYWORDS) : ROUTING_KEYWORDS[i].query_type = category
    THEN LET i == CHOOSE i \in 1..Len(ROUTING_KEYWORDS) :
                      ROUTING_KEYWORDS[i].query_type = category
         IN  keyword_count(ROUTING_KEYWORDS[i].keywords, query_lower)
    ELSE 0

\* C2: when some category has a non-zero count, query-type classification returns a
\* category of maximal count, the first such in the order technical, billing, sales,
\* general, complaint.
C2_MaxCountWins ==
    call.op = "analyzer_query_type" =>
        LET q == str_lower(call.args[1])
            n(i) == category_count(CategoryPriority[i], q)
            best == CHOOSE i \in 1..Len(CategoryPriority) :
                        /\ \A j \in 1..Len(CategoryPriority) : n(j) <= n(i)
                        /\ \A j \in 1..(i - 1) : n(j) < n(i)
        IN  (\E i \in 1..Len(CategoryPriority) : n(i) > 0) =>
                call.result = Return(CategoryPriority[best])

\* The six query types.
QueryTypeValues == {"technical", "billing", "sales", "general", "complaint", "unknown"}

\* C3: with zero keyword matches in every category, classification returns one of the six
\* query types for every outcome of the external classifier, unknown for a failure or an
\* unrecognised answer, and raises nothing.
C3_FallbackNeverRaises ==
    call.op = "analyzer_query_type" =>
        LET q == str_lower(call.args[1])
            llm == call.args[2]
            recognised == llm.kind = "return" /\
                          str_lower(str_strip(llm.value)) \in
                              {T_technical, T_billing, T_sales, T_general, T_complaint}
        IN  (\A i \in 1..Len(CategoryPriority) : category_count(CategoryPriority[i], q) = 0) =>
                /\ call.result.kind = "return"
                /\ call.result.value \in QueryTypeValues
                /\ ~recognised => call.result.value = "unknown"

\* The sentiment level of a fused score, by the buckets of the specification.
sentiment_bucket(s) ==
    IF s >= 500 THEN "very_positive"
    ELSE IF s >= 100 THEN "positive"
    ELSE IF s >= -100 THEN "neutral"
    ELSE IF s >= -500 THEN "negative"
    ELSE IF s >= -700 THEN "very_negative"
    ELSE "angry"

\* C4: sentiment fusion returns the level of the first bucket, from most positive to most
\* negative, that the fused score reaches; a boundary value belongs to the more positive
\* bucket (0.5 is VeryPositive, 0.1 is Positive).
C4_SentimentBuckets ==
    call.op = "analyze_sentiment" =>
        /\ call.result.kind = "return"
        /\ call.result.value[1] = sentiment_bucket(call.result.value[2])

\* C5: sentiment fusion is symmetric: with the two provider scores exchanged it returns the
\* same level and the same fused score, their arithmetic mean.
C5_FusionSymmetric ==
    call.op = "analyze_sentiment" =>
        LET a == call.args.compound
            b == call.args.textblob
            swapped == analyze_sentiment(state.original_query, b, a)
        IN  /\ call.result.kind = "return"
            /\ swapped = call.result
            /\ 2 * call.result.value[2] = a + b

\* Whether rule 1 applies: a tier that escalates automatically, with High or Critical urgency.
rule1(args) ==
    /\ str_lower(args.tier) \in {T_enterprise, T_vip}
    /\ args.urgency \in {"high", "critical"}

\* Whether rule 2 applies: a sentiment score at or below -0.7.
rule2(args) == args.sentiment_score <= -700

\* Whether rule 3 applies: Critical urgency.
rule3(args) == args.urgency = "critical"

\* Whether rule 4 applies: an overall risk score above 0.6.
rule4(args) == args.overall_risk_score > 600

\* C6 as stated: for an auto-escalating tier and High or Critical urgency the decision is
\* to escalate, with the reason "tier auto-escalation policy" reported, for every sentiment
\* score and risk assessment.
C6_Original ==
    (call.op = "should_auto_escalate" /\ rule1(call.args)) =>
        /\ call.result = Return(TRUE)
        /\ state.escalation_reason = "tier auto-escalation policy"

\* C6 as amended: for an auto-escalating tier and High or Critical urgency the decision is
\* to escalate, for every sentiment score and risk assessment; no reason is reported.
C6_TierRuleEscalates ==
    (call.op = "should_auto_escalate" /\ rule1(call.args)) =>
        /\ call.result = Return(TRUE)
        /\ state.escalation_reason = None

\* C6 witness: a VIP customer, High urgency and a neutral score have been escalated.
C6_Witness ==
    /\ call.op = "should_auto_escalate"
    /\ call.args.tier = T_vip
    /\ call.args.urgency = "high"
    /\ call.args.sentiment_score = 0
    /\ call.result = Return(TRUE)

\* C7 as stated: when rule 1 does not apply, a sentiment score at or below the threshold
\* escalates, with the reason "severe negative sentiment" reported.
C7_Original ==
    (call.op = "should_auto_escalate" /\ ~rule1(call.args) /\ rule2(call.args)) =>
        /\ call.result = Return(TRUE)
        /\ state.escalation_reason = "severe negative sentiment"

\* C7 as amended: when rule 1 does not apply, a sentiment score at or below the threshold
\* (-0.7, the boundary included) escalates, for every tier; no reason is reported.
C7_SentimentRuleEscalates ==
    (call.op = "should_auto_escalate" /\ ~rule1(call.args) /\ rule2(call.args)) =>
        /\ call.result = Return(TRUE)
        /\ state.escalation_reason = None

\* C7 witness: a basic customer, Medium urgency and a score of -0.75 have been escalated.
C7_Witness ==
    /\ call.op = "should_auto_escalate"
    /\ str_lower(call.args.tier) = T_basic
    /\ call.args.urgency = "medium"
    /\ call.args.sentiment_score = -750
    /\ call.result = Return(TRUE)

\* The action of one run of the intake node.
IntakeStep == call'.op = "process_query" /\ state' # state

\* C8: after the intake step workflow_step is "routing" and the current agent is the
\* router, whether the analysis succeeds or fails; on failure the defaults are set and
\* exactly one entry is appended to error_messages.
C8_IntakeMovesToRouting ==
    [][IntakeStep =>
          /\ state'.workflow_step = "routing"
          /\ state'.current_agent = "router"
          /\ call'.result.kind = "raise" =>
                 /\ state'.query_type = "unknown"
                 /\ state'.urgency_level = "medium"
                 /\ state'.sentiment_level = "neutral"
                 /\ Len(state'.error_messages) = Len(state.error_messages) + 1]_vars

C12_OneMessagePerStep ==
    [][IntakeStep =>
          /\ Len(state'.conversation_history) = Len(state.conversation_history) + 1
          /\ SubSeq(state'.conversation_history, 1, Len(state.conversation_history)) =
                 state.conversation_history]_vars

\* The four tiers of the settings table.
KnownTiers == {T_basic, T_premium, T_enterprise, T_vip}

\* The settings the table holds for a tier.
settings_of(tier) ==
    TIER_SETTINGS[CHOOSE i \in 1..Len(TIER_SETTINGS) : TIER_SETTINGS[i].tier = tier].settings

\* C13: the tier lookup is total and ignores case: a tier that is none of the four gets the
\* basic settings, a tier spelt in another case gets its own; so for an unknown tier the
\* escalation rule returns what it returns for basic, never by the tier rule.
C13_TierLookupTotal ==
    /\ call.op = "get_tier_settings" =>
           call.result =
               Return(IF str_lower(call.args.tier) \in KnownTiers
                      THEN settings_of(str_lower(call.args.tier))
                      ELSE settings_of(T_basic))
    /\ (call.op = "should_auto_escalate" /\ str_lower(call.args.tier) \notin KnownTiers) =>
           /\ call.result =
                  Return(should_auto_escalate(T_basic, call.args.urgency,
                                              call.args.sentiment_score))
           /\ call.result = Return(TRUE) => (rule2(call.args) \/ rule3(call.args))

\* C13 witness: a tier that does not exist, with High urgency and a neutral score, has not
\* been escalated.
C13_Witness ==
    /\ call.op = "should_auto_escalate"
    /\ str_lower(call.args.tier) \notin KnownTiers
    /\ call.args.urgency = "high"
    /\ call.args.sentiment_score = 0
    /\ call.result = Return(FALSE)

====
